---- MODULE Spec2Model ----
(***************************************************************************)
(* Model of pve_switch.VMController: the persisted manual lock, the        *)
(* asyncio operation guard and the perform_switch coroutine, run on a      *)
(* single cooperative event loop against a Proxmox control plane and a     *)
(* Telegram progress sink.                                                 *)
(***************************************************************************)
EXTENDS Integers, Sequences, FiniteSets, TLC

\* ------------------------------------------------------------------------
\* Bounds
\* ------------------------------------------------------------------------

\* number of perform_switch invocations that can be outstanding at once
NumInv == 2

\* number of polls of _wait_for_shutdown (the default timeout, scaled down)
Timeout == 2

Invs == 1..NumInv

\* longest run of observations, and largest timeout, given to the waiter when
\* it is called on its own
MaxWait == 3

NoInv == 0

\* ------------------------------------------------------------------------
\* Roles and the control plane
\* ------------------------------------------------------------------------

Roles == {"linux", "windows"}

\* source_id of perform_switch: the VM that is not the target
SourceOf(target_os) == IF target_os = "linux" THEN "windows" ELSE "linux"

\* what the Proxmox "status/current" endpoint can answer for a VM in state s:
\* the status, a body without a "status" key, or a failure of the call
StatusResponses(s) == {[kind |-> "data", status |-> s],
                       [kind |-> "nokey", status |-> s],
                       [kind |-> "raise", status |-> s]}

\* get_vm_status: the status, "unknown" for a missing key, "error" on failure
GetVmStatus(resp) ==
    CASE resp.kind = "data"  -> resp.status
      [] resp.kind = "nokey" -> "unknown"
      [] resp.kind = "raise" -> "error"

\* outcomes of a POST to status/shutdown, status/stop or status/start:
\* accepted, rejected by the API (ResourceException), or a transport failure
PostOutcomes == {"ok", "api_error", "transport_error"}

\* outcomes of bot.send_message / bot.edit_message_text
SendOutcomes == {"ok", "bad_request", "error"}

\* ------------------------------------------------------------------------
\* Lock file
\* ------------------------------------------------------------------------

\* the path does not exist
NoFile == [exists |-> FALSE, content |-> <<>>]

\* the path holds the characters c
File(c) == [exists |-> TRUE, content |-> c]

TextLOCKED == <<"L", "O", "C", "K", "E", "D">>

TextUNLOCKED == <<"U", "N", "L", "O", "C", "K", "E", "D">>

Whitespace == {" ", "\n", "\t"}

RECURSIVE LStrip(_)
LStrip(s) == IF s # <<>> /\ Head(s) \in Whitespace THEN LStrip(Tail(s)) ELSE s

RECURSIVE RStrip(_)
RStrip(s) == IF s # <<>> /\ s[Len(s)] \in Whitespace
             THEN RStrip(SubSeq(s, 1, Len(s) - 1)) ELSE s

\* str.strip()
Strip(s) == RStrip(LStrip(s))

\* contents the lock file can hold when the process starts
InitialFiles == {NoFile, File(TextLOCKED), File(<<" ">> \o TextLOCKED \o <<"\n">>),
                 File(<<"L", "O", "C", "K">>)}

\* outcomes of reading the file in _load_lock_state
ReadOutcomes == {"ok", "raise"}

\* _load_lock_state: False when the path does not exist or the read raises
LoadLockState(file, read) ==
    IF ~file.exists THEN FALSE
    ELSE IF read = "raise" THEN FALSE
    ELSE Strip(file.content) = TextLOCKED

\* a writer that spells the locked state in another case than the reader
LockFileTextLower(locked) ==
    IF locked THEN <<"l", "o", "c", "k", "e", "d">> ELSE TextUNLOCKED

\* the text set_lock writes
LockFileText(locked) == IF locked THEN TextLOCKED ELSE TextUNLOCKED

\* outcomes of the write in set_lock: written, open() raised (file untouched),
\* write() raised after open() truncated the file
WriteOutcomes == {"ok", "open_raise", "write_raise"}

WriteLockFile(file, locked, outcome) ==
    CASE outcome = "ok"          -> File(LockFileText(locked))
      [] outcome = "open_raise"  -> file
      [] outcome = "write_raise" -> File(<<>>)

\* ------------------------------------------------------------------------
\* State
\* ------------------------------------------------------------------------

VARIABLES
    manual_lock,   \* VMController._manual_lock
    lock_file,     \* the file at cfg.lock_file_path
    op_lock,       \* VMController._op_lock is held
    vm,            \* power state of each role's VM, owned by the control plane
    inv,           \* the perform_switch invocations
    cur,           \* the invocation running on the event loop, or NoInv
    loaded,        \* how the last _load_lock_state went, until the next set_lock
    saved,         \* value of the last set_lock whose write succeeded
    requested,     \* argument of the last set_lock since the process started
    waiter         \* a call of _wait_for_shutdown on its own: input and result

vars == <<manual_lock, lock_file, op_lock, vm, inv, cur, loaded, saved, requested, waiter>>

NoResult == [status |-> "none", message |-> "none"]

\* no call of the waiter on its own
NoWaiter == [obs |-> <<>>, timeout |-> 0, out |-> "none", polls |-> 0]

\* an invocation that has not been made
IdleInv == [pc |-> "idle", awaiting |-> FALSE, target |-> "linux", quiet |-> FALSE,
            progress_msg |-> FALSE, polls |-> 0, nstatus |-> 0,
            cp |-> <<>>, prog |-> <<>>, result |-> NoResult,
            entryLocked |-> FALSE, entryHeld |-> FALSE, entryOthers |-> FALSE,
            preRunning |-> FALSE, waited |-> "na", stopOut |-> "na",
            recheck |-> "na", startOut |-> "na"]

\* the invocation is inside "async with self._op_lock"
InBody(i) == inv[i].pc \notin {"idle", "done"}

\* ------------------------------------------------------------------------
\* Lock store
\* ------------------------------------------------------------------------

\* what the last load found: the path missing, the read failing, or the text
LoadKind(file, read) ==
    IF ~file.exists THEN "missing" ELSE IF read = "raise" THEN "unreadable" ELSE "read"

\* a set_lock that keeps the old value when the write fails
MemoryAfterSetLockRollback(old, locked, outcome) ==
    IF outcome = "ok" THEN locked ELSE old

\* line 114: self._manual_lock after set_lock, whatever the write does
MemoryAfterSetLock(old, locked, outcome) == locked

\* VMController.set_lock
SetLock(locked) ==
    /\ cur = NoInv
    /\ \E outcome \in WriteOutcomes :
          /\ lock_file' = WriteLockFile(lock_file, locked, outcome)
          /\ saved' = IF outcome = "ok" THEN IF locked THEN "true" ELSE "false"
                      ELSE "none"
          /\ manual_lock' = MemoryAfterSetLock(manual_lock, locked, outcome)
    /\ loaded' = "none"
    /\ requested' = IF locked THEN "true" ELSE "false"
    /\ UNCHANGED <<op_lock, vm, inv, cur, waiter>>

\* the process is stopped and started again: VMController.__init__
Restart ==
    /\ \E read \in ReadOutcomes :
          /\ manual_lock' = LoadLockState(lock_file, read)
          /\ loaded' = LoadKind(lock_file, read)
    /\ op_lock' = FALSE
    /\ inv' = [i \in Invs |-> IdleInv]
    /\ cur' = NoInv
    /\ requested' = "none"
    /\ UNCHANGED <<lock_file, vm, saved, waiter>>

\* ------------------------------------------------------------------------
\* perform_switch
\* ------------------------------------------------------------------------

\* a lock check that is skipped
IsLockedNever(m) == FALSE

\* the is_locked property
IsLocked(m) == m

\* a guard check that never sees the guard held
LockedNever(l) == FALSE

\* self._op_lock.locked()
Locked(l) == l

\* a guard released by hand before each return, and not on an exception
ExitGuardNoFinally(how) == how = "raise"

\* the guard after "async with" is left by a return or by an exception
ExitGuard(how) == FALSE

\* "except ResourceException" around the shutdown request
ShutdownCaught(outcome) == outcome = "api_error"

\* a waiter whose result is ignored
NeedsEscalationNever(waited) == FALSE

\* a forced stop that follows every wait
NeedsEscalationAlways(waited) == TRUE

\* "if not stopped" after the waiter
NeedsEscalation(waited) == waited = "timeout"

\* a forced stop whose failure is only logged
StopNextSwallow(outcome) == "settle"

\* where the forced stop leads: the settle delay, or the failure report
StopNext(outcome) == IF outcome = "ok" THEN "settle" ELSE "report_stop_failed"

\* a start request that is sent whatever the second look finds
StartsTargetAlways(obs) == TRUE

\* "if current_target_status != 'running'" before the start request
StartsTarget(obs) == obs # "running"

\* a skip notice that is sent also to quiet callers
NotifiesSkipAlways(quiet_on_skip) == TRUE

\* "if not quiet_on_skip" before the skip notice
NotifiesSkip(quiet_on_skip) == ~quiet_on_skip

\* a waiter that takes every answer but "running" for a stopped VM
SeesStoppedLoose(obs) == obs # "running"

\* "if self.get_vm_status(vmid) == 'stopped'" in the waiter
SeesStopped(obs) == obs = "stopped"

\* a waiter that polls until the VM stops, whatever the timeout
LoopContinuesForever(polls, timeout) == TRUE

\* "for _ in range(timeout)": there is another turn after polls turns
LoopContinues(polls, timeout) == polls < timeout

\* where the start request leads
StartNext(outcome) == IF outcome = "ok" THEN "report_success" ELSE "report_start_failed"

\* the calls of report() and the text each one sends
ReportPcs == {"report_shutting", "report_stuck", "report_stop_failed",
              "report_starting", "report_success", "report_info",
              "report_start_failed"}

ReportText(pc) ==
    CASE pc = "report_shutting"     -> "shutting"
      [] pc = "report_stuck"        -> "stuck"
      [] pc = "report_stop_failed"  -> "stop_failed"
      [] pc = "report_starting"     -> "starting"
      [] pc = "report_success"      -> "success"
      [] pc = "report_info"         -> "info"
      [] pc = "report_start_failed" -> "start_failed"

\* the statement after each report(); "return" for the three before a return
AfterReport(pc) ==
    CASE pc = "report_shutting"     -> "check_source"
      [] pc = "report_stuck"        -> "stop_req"
      [] pc = "report_starting"     -> "recheck"
      [] pc = "report_stop_failed"  -> "return"
      [] pc = "report_success"      -> "return"
      [] pc = "report_info"         -> "return"
      [] pc = "report_start_failed" -> "return"

\* the value returned after the three final reports
ReturnAfter(pc) ==
    CASE pc = "report_stop_failed"  -> [status |-> "error", message |-> "stop_failed"]
      [] pc = "report_start_failed" -> [status |-> "error", message |-> "start_failed"]
      [] pc = "report_success"      -> [status |-> "ok", message |-> "switched"]
      [] pc = "report_info"         -> [status |-> "ok", message |-> "switched"]

\* the invocation goes on, on the event loop, at statement p
Continue(i, r, p) ==
    /\ inv' = [inv EXCEPT ![i] = [r EXCEPT !.pc = p, !.awaiting = FALSE]]
    /\ cur' = i
    /\ op_lock' = op_lock

\* the invocation suspends at its current statement
Suspend(i, r) ==
    /\ inv' = [inv EXCEPT ![i] = [r EXCEPT !.awaiting = TRUE]]
    /\ cur' = NoInv
    /\ op_lock' = op_lock

\* the invocation leaves the guarded body with a result (how = "return")
\* or with an exception (how = "raise"); its caller runs next
Leave(i, r, how, res) ==
    /\ inv' = [inv EXCEPT ![i] = [r EXCEPT !.pc = "done", !.awaiting = FALSE,
                                           !.result = res]]
    /\ cur' = i
    /\ op_lock' = ExitGuard(how)

\* the power states after a request with this outcome: an accepted request
\* brings the VM of role to the state asked for, or the guest does not follow
Effects(outcome, role, state) ==
    IF outcome = "ok" THEN {vm, [vm EXCEPT ![role] = state]} ELSE {vm}

\* the power states a status query of role can report
Observed(role) == {GetVmStatus(resp) : resp \in StatusResponses(vm[role])}

\* lines 153-162: lock check, guard check, acquire
Invoke(i, target_os, quiet_on_skip) ==
    /\ cur = NoInv
    /\ inv[i].pc = "idle"
    /\ LET r == [IdleInv EXCEPT !.target = target_os, !.quiet = quiet_on_skip,
                                !.entryLocked = manual_lock, !.entryHeld = op_lock,
                                !.entryOthers = \E j \in Invs \ {i} : InBody(j)]
       IN  IF IsLocked(manual_lock)
           THEN /\ inv' = [inv EXCEPT ![i] = [r EXCEPT !.pc = "done",
                              !.result = [status |-> "error", message |-> "locked"]]]
                /\ cur' = i
                /\ UNCHANGED op_lock
           ELSE IF Locked(op_lock)
           THEN /\ inv' = [inv EXCEPT ![i] = [r EXCEPT !.pc = "done",
                              !.result = [status |-> "error", message |-> "busy"]]]
                /\ cur' = i
                /\ UNCHANGED op_lock
           ELSE /\ inv' = [inv EXCEPT ![i] = [r EXCEPT !.pc = "preflight"]]
                /\ op_lock' = TRUE
                /\ cur' = i
    /\ UNCHANGED <<manual_lock, lock_file, vm, loaded, saved, requested, waiter>>

\* lines 174-188: the pre-flight check of the target
Preflight(i) ==
    /\ cur = i
    /\ inv[i].pc = "preflight"
    /\ \E obs \in Observed(inv[i].target) :
          LET r == [inv[i] EXCEPT !.nstatus = @ + 1, !.preRunning = (obs = "running")]
          IN  IF obs = "running"
              THEN IF NotifiesSkip(r.quiet)
                   THEN Suspend(i, [r EXCEPT !.pc = "notify", !.prog = Append(@, "notify")])
                   ELSE Leave(i, r, "return",
                              [status |-> "ok", message |-> "already_running"])
              ELSE Continue(i, r, "open")
    /\ UNCHANGED <<manual_lock, lock_file, vm, loaded, saved, requested, waiter>>

\* lines 181-191: send_message of the skip notice returns or raises
NotifyReturn(i) ==
    /\ cur = NoInv
    /\ inv[i].pc = "notify" /\ inv[i].awaiting
    /\ \E outcome \in SendOutcomes :
          IF outcome = "ok"
          THEN Leave(i, inv[i], "return",
                     [status |-> "ok", message |-> "already_running"])
          ELSE Continue(i, inv[i], "open")
    /\ UNCHANGED <<manual_lock, lock_file, vm, loaded, saved, requested, waiter>>

\* lines 196-202: the first progress message is sent
Open(i) ==
    /\ cur = i
    /\ inv[i].pc = "open"
    /\ Suspend(i, [inv[i] EXCEPT !.prog = Append(@, "open")])
    /\ UNCHANGED <<manual_lock, lock_file, vm, loaded, saved, requested, waiter>>

\* lines 198-204: send_message returns the message, or raises
OpenReturn(i) ==
    /\ cur = NoInv
    /\ inv[i].pc = "open" /\ inv[i].awaiting
    /\ \E outcome \in SendOutcomes :
          Continue(i, [inv[i] EXCEPT !.progress_msg = (outcome = "ok")],
                   "report_shutting")
    /\ UNCHANGED <<manual_lock, lock_file, vm, loaded, saved, requested, waiter>>

\* what follows a report(): the next statement, or the return
Reported(i) ==
    IF AfterReport(inv[i].pc) = "return"
    THEN Leave(i, inv[i], "return", ReturnAfter(inv[i].pc))
    ELSE Continue(i, inv[i], AfterReport(inv[i].pc))

\* lines 206-216: report() is called
Report(i) ==
    /\ cur = i
    /\ inv[i].pc \in ReportPcs
    /\ IF inv[i].progress_msg
       THEN Suspend(i, [inv[i] EXCEPT !.prog = Append(@, ReportText(inv[i].pc))])
       ELSE Reported(i)
    /\ UNCHANGED <<manual_lock, lock_file, vm, loaded, saved, requested, waiter>>

\* lines 211-221: edit_message_text returns or raises, report() returns
ReportReturn(i) ==
    /\ cur = NoInv
    /\ inv[i].pc \in ReportPcs /\ inv[i].awaiting
    /\ \E outcome \in SendOutcomes : Reported(i)
    /\ UNCHANGED <<manual_lock, lock_file, vm, loaded, saved, requested, waiter>>

\* line 230: is the source running?
CheckSource(i) ==
    /\ cur = i
    /\ inv[i].pc = "check_source"
    /\ \E obs \in Observed(SourceOf(inv[i].target)) :
          LET r == [inv[i] EXCEPT !.nstatus = @ + 1]
          IN  Continue(i, r, IF obs = "running" THEN "shutdown_req" ELSE "report_starting")
    /\ UNCHANGED <<manual_lock, lock_file, vm, loaded, saved, requested, waiter>>

\* lines 231-234: the shutdown request
ShutdownReq(i) ==
    /\ cur = i
    /\ inv[i].pc = "shutdown_req"
    /\ \E outcome \in PostOutcomes :
          LET r == [inv[i] EXCEPT !.cp = Append(@, "shutdown")]
          IN  /\ vm' \in Effects(outcome, SourceOf(r.target), "stopped")
              /\ IF outcome = "ok" \/ ShutdownCaught(outcome)
                 THEN Continue(i, r, "wait_poll")
                 ELSE Leave(i, r, "raise",
                            [status |-> "raised", message |-> "shutdown_request"])
    /\ UNCHANGED <<manual_lock, lock_file, loaded, saved, requested, waiter>>

\* lines 141-145 and 237-239: one turn of the loop of _wait_for_shutdown,
\* or its end
WaitPoll(i) ==
    /\ cur = i
    /\ inv[i].pc = "wait_poll"
    /\ IF LoopContinues(inv[i].polls, Timeout)
       THEN \E obs \in Observed(SourceOf(inv[i].target)) :
               LET r == [inv[i] EXCEPT !.nstatus = @ + 1, !.polls = @ + 1]
               IN  IF SeesStopped(obs)
                   THEN Continue(i, [r EXCEPT !.waited = "stopped"],
                                 IF NeedsEscalation("stopped")
                                 THEN "report_stuck" ELSE "report_starting")
                   ELSE Suspend(i, r)
       ELSE Continue(i, [inv[i] EXCEPT !.waited = "timeout"],
                     IF NeedsEscalation("timeout")
                     THEN "report_stuck" ELSE "report_starting")
    /\ UNCHANGED <<manual_lock, lock_file, vm, loaded, saved, requested, waiter>>

\* line 144: asyncio.sleep(1) is over
WaitWake(i) ==
    /\ cur = NoInv
    /\ inv[i].pc = "wait_poll" /\ inv[i].awaiting
    /\ Continue(i, inv[i], "wait_poll")
    /\ UNCHANGED <<manual_lock, lock_file, vm, loaded, saved, requested, waiter>>

\* lines 243-248: the forced stop request
StopReq(i) ==
    /\ cur = i
    /\ inv[i].pc = "stop_req"
    /\ \E outcome \in PostOutcomes :
          LET r == [inv[i] EXCEPT !.cp = Append(@, "stop"), !.stopOut = outcome]
          IN  /\ vm' \in Effects(outcome, SourceOf(r.target), "stopped")
              /\ IF StopNext(outcome) = "settle"
                 THEN Suspend(i, [r EXCEPT !.pc = "settle"])
                 ELSE Continue(i, r, StopNext(outcome))
    /\ UNCHANGED <<manual_lock, lock_file, loaded, saved, requested, waiter>>

\* line 245: asyncio.sleep(3) is over
SettleWake(i) ==
    /\ cur = NoInv
    /\ inv[i].pc = "settle" /\ inv[i].awaiting
    /\ Continue(i, inv[i], "report_starting")
    /\ UNCHANGED <<manual_lock, lock_file, vm, loaded, saved, requested, waiter>>

\* lines 257-258 and 264: the second look at the target
Recheck(i) ==
    /\ cur = i
    /\ inv[i].pc = "recheck"
    /\ \E obs \in Observed(inv[i].target) :
          LET r == [inv[i] EXCEPT !.nstatus = @ + 1,
                                  !.recheck = IF obs = "running" THEN "running" ELSE "other"]
          IN  Continue(i, r, IF StartsTarget(obs) THEN "start_req" ELSE "report_info")
    /\ UNCHANGED <<manual_lock, lock_file, vm, loaded, saved, requested, waiter>>

\* lines 259 and 265-267: the start request
StartReq(i) ==
    /\ cur = i
    /\ inv[i].pc = "start_req"
    /\ \E outcome \in PostOutcomes :
          LET r == [inv[i] EXCEPT !.cp = Append(@, "start"),
                                  !.startOut = IF outcome = "ok" THEN "ok" ELSE "failed"]
          IN  /\ vm' \in Effects(outcome, r.target, "running")
              /\ Continue(i, r, StartNext(outcome))
    /\ UNCHANGED <<manual_lock, lock_file, loaded, saved, requested, waiter>>

\* the handler that awaited perform_switch goes on with the result, in the
\* same turn of the event loop, and ends
Collect(i) ==
    /\ cur = i
    /\ inv[i].pc = "done"
    /\ inv' = [inv EXCEPT ![i] = IdleInv]
    /\ cur' = NoInv
    /\ UNCHANGED <<manual_lock, lock_file, op_lock, vm, loaded, saved, requested, waiter>>

\* ------------------------------------------------------------------------
\* The control plane
\* ------------------------------------------------------------------------

\* a VM is started or stopped by someone else, or by its guest
ExternalChange(role) ==
    /\ vm' = [vm EXCEPT ![role] = IF @ = "running" THEN "stopped" ELSE "running"]
    /\ UNCHANGED <<manual_lock, lock_file, op_lock, inv, cur, loaded, saved, requested, waiter>>

\* ------------------------------------------------------------------------
\* Specifications
\* ------------------------------------------------------------------------

\* VMController.__init__ with a lock file and two VMs in any state
Init ==
    /\ lock_file \in InitialFiles
    /\ \E read \in ReadOutcomes :
          /\ manual_lock = LoadLockState(lock_file, read)
          /\ loaded = LoadKind(lock_file, read)
    /\ saved = "none"
    /\ requested = "none"
    /\ waiter = NoWaiter
    /\ op_lock = FALSE
    /\ vm \in [Roles -> {"running", "stopped"}]
    /\ inv = [i \in Invs |-> IdleInv]
    /\ cur = NoInv

Step(i) ==
    \/ \E t \in Roles, q \in BOOLEAN : Invoke(i, t, q)
    \/ Preflight(i)
    \/ NotifyReturn(i)
    \/ Open(i)
    \/ OpenReturn(i)
    \/ Report(i)
    \/ ReportReturn(i)
    \/ CheckSource(i)
    \/ ShutdownReq(i)
    \/ WaitPoll(i)
    \/ WaitWake(i)
    \/ StopReq(i)
    \/ SettleWake(i)
    \/ Recheck(i)
    \/ StartReq(i)
    \/ Collect(i)

Next ==
    \/ \E i \in Invs : Step(i)
    \/ \E locked \in BOOLEAN : SetLock(locked)
    \/ Restart
    \/ \E role \in Roles : ExternalChange(role)

Spec == Init /\ [][Next]_vars

\* the steps of an invocation that has been made: the event loop runs every
\* coroutine that is ready, in turn
Progress(i) ==
    \/ Preflight(i)
    \/ NotifyReturn(i)
    \/ Open(i)
    \/ OpenReturn(i)
    \/ Report(i)
    \/ ReportReturn(i)
    \/ CheckSource(i)
    \/ ShutdownReq(i)
    \/ WaitPoll(i)
    \/ WaitWake(i)
    \/ StopReq(i)
    \/ SettleWake(i)
    \/ Recheck(i)
    \/ StartReq(i)
    \/ Collect(i)

\* a process that starts without a lock file, is not interrupted, and whose
\* lock nobody sets: the lock is read at entry only
InitFair == Init /\ lock_file = NoFile

NextFair ==
    \/ \E i \in Invs : Step(i)
    \/ \E role \in Roles : ExternalChange(role)

\* every call returns and every sleep ends; a coroutine that is ready again
\* and again gets its turn
SpecFair == InitFair /\ [][NextFair]_vars /\ \A i \in Invs : SF_vars(Progress(i))

\* no other actor touches the VMs, and at most one of them runs at first
InitClosed ==
    /\ Init
    /\ ~(vm["linux"] = "running" /\ vm["windows"] = "running")

NextClosed ==
    \/ \E i \in Invs : Step(i)
    \/ \E locked \in BOOLEAN : SetLock(locked)
    \/ Restart

SpecClosed == InitClosed /\ [][NextClosed]_vars

\* everything get_vm_status can return
PowerStates ==
    {GetVmStatus(resp) : resp \in UNION {StatusResponses(st) : st \in {"running", "stopped"}}}

\* lines 141-145: the loop of _wait_for_shutdown from its turn number polls + 1
\* on, over the answers obs that the status queries give in turn
RECURSIVE WaitFrom(_, _, _)
WaitFrom(obs, polls, timeout) ==
    IF ~LoopContinues(polls, timeout)
    THEN [stopped |-> FALSE, polls |-> polls]
    ELSE IF SeesStopped(obs[polls + 1])
         THEN [stopped |-> TRUE, polls |-> polls + 1]
         ELSE WaitFrom(obs, polls + 1, timeout)

\* _wait_for_shutdown(vmid, timeout)
WaitForShutdown(obs, timeout) == WaitFrom(obs, 0, timeout)

\* the waiter is called on its own
WaiterCall ==
    /\ waiter.out = "none"
    /\ LET ret == WaitForShutdown(waiter.obs, waiter.timeout)
       IN  waiter' = [waiter EXCEPT !.out = IF ret.stopped THEN "true" ELSE "false",
                                    !.polls = ret.polls]
    /\ UNCHANGED <<manual_lock, lock_file, op_lock, vm, inv, cur, loaded, saved,
                   requested>>

\* a call of the waiter with any timeout and any answers of the status queries
InitWaiter ==
    /\ lock_file = NoFile
    /\ manual_lock = LoadLockState(lock_file, "ok")
    /\ loaded = LoadKind(lock_file, "ok")
    /\ saved = "none"
    /\ requested = "none"
    /\ op_lock = FALSE
    /\ vm = [r \in Roles |-> "stopped"]
    /\ inv = [i \in Invs |-> IdleInv]
    /\ cur = NoInv
    /\ waiter \in [obs : [1..MaxWait -> PowerStates], timeout : 0..MaxWait,
                   out : {"none"}, polls : {0}]

NextWaiter == WaiterCall

SpecWaiter == InitWaiter /\ [][NextWaiter]_vars

\* ------------------------------------------------------------------------
\* Properties
\* ------------------------------------------------------------------------

Count(seq, x) == Cardinality({k \in 1..Len(seq) : seq[k] = x})

Has(seq, x) == \E k \in 1..Len(seq) : seq[k] = x

Finished(i) == inv[i].pc = "done"

\* the invocation has issued no call to the control plane and none to the
\* progress sink
NoCalls(i) == inv[i].cp = <<>> /\ inv[i].nstatus = 0 /\ inv[i].prog = <<>>

\* the step is the entry of invocation i into perform_switch
Enters(i) == inv[i].pc = "idle" /\ inv'[i].pc # "idle"

\* C1: at any time at most one invocation is between acquiring and releasing
\* the operation guard.
C1_SingleFlight == Cardinality({i \in Invs : InBody(i)}) <= 1

C1_Witness ==
    \E i, j \in Invs : /\ InBody(i) /\ inv[i].awaiting
                       /\ Finished(j) /\ inv[j].result.message = "busy"

\* C2: an invocation that checks the guard while it is held has finished with
\* the "already in progress" error before anything else runs, has issued no
\* call, and its entry neither takes nor changes the guard.
C2_BusyRejected ==
    /\ [](\A i \in Invs :
            (inv[i].pc # "idle" /\ ~inv[i].entryLocked /\ inv[i].entryHeld)
            => /\ Finished(i)
               /\ inv[i].result = [status |-> "error", message |-> "busy"]
               /\ NoCalls(i))
    /\ [][\A i \in Invs :
            (Enters(i) /\ ~manual_lock /\ op_lock)
            => (Finished(i)' /\ op_lock' /\ cur' = i)]_vars

C2_Witness ==
    \E i \in Invs : /\ Finished(i) /\ inv[i].entryHeld /\ ~inv[i].entryLocked
                    /\ \E j \in Invs \ {i} : InBody(j) /\ inv[j].cp # <<>>

\* C3: an invocation made while the system is locked returns the locked error
\* whatever its target, its quiet flag and the guard, issues no call, and
\* leaves the guard and the lock as they were.
C3_LockedRejected ==
    /\ [](\A i \in Invs :
            (inv[i].pc # "idle" /\ inv[i].entryLocked)
            => /\ Finished(i)
               /\ inv[i].result = [status |-> "error", message |-> "locked"]
               /\ NoCalls(i))
    /\ [][\A i \in Invs :
            (Enters(i) /\ manual_lock)
            => (op_lock' = op_lock /\ manual_lock' = manual_lock)]_vars

C3_Witness ==
    \E i \in Invs : /\ Finished(i) /\ inv[i].entryLocked /\ inv[i].entryHeld
                    /\ inv[i].result.message = "locked"

\* C4: an invocation whose pre-flight check saw the target running issues no
\* shutdown, forced stop or start request, and returns ok.
C4_SkipWhenRunning ==
    \A i \in Invs :
        inv[i].preRunning
        => /\ inv[i].cp = <<>>
           /\ Finished(i) => inv[i].result.status = "ok"

\* C5: the guard is free whenever no invocation is inside the body, on every
\* way out of it; an invocation is rejected as "already in progress" only
\* when another one was inside the body.
C5_GuardReleased ==
    /\ (\A i \in Invs : ~InBody(i)) => ~op_lock
    /\ \A i \in Invs :
          (Finished(i) /\ inv[i].result.message = "busy") => inv[i].entryOthers

C5_Witness ==
    \E i \in Invs : Finished(i) /\ inv[i].result.status = "raised" /\ ~op_lock

\* C6: every finished invocation has returned a result with status ok or
\* error; none has ended with an exception.
C6_NeverRaises ==
    \A i \in Invs : Finished(i) => inv[i].result.status \in {"ok", "error"}

\* the statements after the forced stop request
PastStop == {"settle", "report_stop_failed", "report_starting", "recheck",
             "start_req", "report_success", "report_info",
             "report_start_failed", "done"}

\* C7: once the waiter has timed out and the invocation is past the
\* escalation, it has issued exactly one forced stop, right after the shutdown
\* request and before any start request; no invocation issues a forced stop
\* otherwise, or more than one.
C7_ForcedStopOnce ==
    \A i \in Invs :
        /\ (inv[i].waited = "timeout" /\ inv[i].pc \in PastStop)
           => /\ Len(inv[i].cp) >= 2
              /\ inv[i].cp[1] = "shutdown"
              /\ inv[i].cp[2] = "stop"
        /\ Count(inv[i].cp, "stop") <= 1
        /\ Has(inv[i].cp, "stop") => inv[i].waited = "timeout"

C7_Witness ==
    \E i \in Invs : /\ Finished(i) /\ inv[i].waited = "timeout"
                    /\ inv[i].cp = <<"shutdown", "stop", "start">>

\* C8: when the forced stop request fails the invocation issues no start
\* request and returns an error.
C8_StopFailureAborts ==
    \A i \in Invs :
        inv[i].stopOut \in {"api_error", "transport_error"}
        => /\ ~Has(inv[i].cp, "start")
           /\ inv[i].pc \in {"report_stop_failed", "done"}
           /\ Finished(i) => inv[i].result = [status |-> "error", message |-> "stop_failed"]

C8_Witness ==
    \E i \in Invs : /\ Finished(i) /\ inv[i].stopOut = "transport_error"
                    /\ inv[i].result.status = "error"

\* the text is LOCKED with nothing but white space before and after it
PaddedLOCKED(c) ==
    \E a \in 0..Len(c) :
        /\ a + 6 <= Len(c)
        /\ SubSeq(c, a + 1, a + 6) = TextLOCKED
        /\ \A k \in 1..Len(c) : (k <= a \/ k > a + 6) => c[k] \in Whitespace

\* what a restart finds after a set_lock that was written
RoundTrip ==
    (saved # "none" /\ loaded = "read") => (manual_lock <=> saved = "true")

\* C9 (amended): after set_lock(v) is written and the process restarts and
\* reads the file, the lock is v; a load that finds no file, cannot read it,
\* or reads anything but LOCKED between optional white space, yields unlocked.
C9_LockRoundTrip ==
    /\ RoundTrip
    /\ loaded \in {"missing", "unreadable"} => ~manual_lock
    /\ (loaded = "read" /\ ~PaddedLOCKED(lock_file.content)) => ~manual_lock

\* C9 as stated: any content other than LOCKED yields unlocked.
C9_AsStated ==
    /\ RoundTrip
    /\ loaded \in {"missing", "unreadable"} => ~manual_lock
    /\ (loaded = "read" /\ lock_file.content # TextLOCKED) => ~manual_lock

C9_Witness == saved = "true" /\ loaded = "read" /\ manual_lock

\* C10: the two roles are never both running.
C10_RolesExclusive == ~(vm["linux"] = "running" /\ vm["windows"] = "running")

OkSwitched == [status |-> "ok", message |-> "switched"]

\* the invocation was not skipped at pre-flight and its waiter saw the source
\* stop in time
Graceful(i) == Finished(i) /\ ~inv[i].preRunning /\ inv[i].waited = "stopped"

\* C11 (amended): on the graceful path the invocation issues one shutdown
\* request and no forced stop; then one start request, or none when the second
\* look finds the target running; it returns ok "Switched to" unless the start
\* request fails, and then an error.
C11_GracefulPath ==
    \A i \in Invs :
        Graceful(i)
        => /\ inv[i].recheck = "other" => inv[i].cp = <<"shutdown", "start">>
           /\ inv[i].recheck = "running" => inv[i].cp = <<"shutdown">>
           /\ inv[i].recheck # "na"
           /\ inv[i].startOut # "failed" => inv[i].result = OkSwitched
           /\ inv[i].startOut = "failed"
              => inv[i].result = [status |-> "error", message |-> "start_failed"]

\* C11 as stated: the graceful path always issues one shutdown and one start
\* request and returns ok "Switched to".
C11_AsStated ==
    \A i \in Invs :
        Graceful(i) => (inv[i].cp = <<"shutdown", "start">> /\ inv[i].result = OkSwitched)

C11_Witness ==
    \E i \in Invs : /\ Graceful(i) /\ inv[i].cp = <<"shutdown", "start">>
                    /\ inv[i].result = OkSwitched /\ inv[i].polls = Timeout

\* C12: a quiet invocation whose pre-flight check saw the target running has
\* returned ok "already running" and has made no call to the progress sink.
C12_QuietSkip ==
    \A i \in Invs :
        (inv[i].preRunning /\ inv[i].quiet)
        => /\ Finished(i)
           /\ inv[i].result = [status |-> "ok", message |-> "already_running"]
           /\ inv[i].prog = <<>>

C12_Witness ==
    \E i \in Invs : /\ inv[i].preRunning /\ inv[i].quiet /\ Finished(i)
                    /\ inv[i].cp = <<>> /\ inv[i].nstatus = 1

\* C13: an invocation that has issued the shutdown request has also run the
\* waiter, whatever became of the request, and ends with a result.
C13_ShutdownFailureTolerated ==
    \A i \in Invs :
        (Finished(i) /\ Has(inv[i].cp, "shutdown"))
        => (inv[i].waited # "na" /\ inv[i].result.status \in {"ok", "error"})

\* the step issues a request of invocation i to the control plane
Requests(i) == Len(inv'[i].cp) > Len(inv[i].cp)

\* C14 (amended): while the system is locked no invocation gets past the lock
\* check, and every request is issued by an invocation that entered while the
\* system was unlocked; one that is in flight when the lock is set runs on.
C14_LockAtEntry ==
    [][\A i \in Invs :
          /\ (Enters(i) /\ manual_lock) => ~InBody(i)'
          /\ Requests(i) => (InBody(i) /\ ~inv[i].entryLocked)]_vars

\* C14 as stated: no request is issued while the system is locked.
C14_AsStated == [][\A i \in Invs : Requests(i) => ~manual_lock]_vars

C14_Witness ==
    \E i \in Invs : /\ manual_lock /\ ~inv[i].entryLocked
                    /\ inv[i].pc = "wait_poll" /\ cur = i /\ inv[i].polls = 0
                    /\ inv[i].cp = <<"shutdown">>

\* the last updates of a switch: two for success, two for failure
OkUpdates == {"success", "info"}

FailUpdates == {"stop_failed", "start_failed"}

\* open, "shutting down", at most one "stuck", at most one "starting", and one
\* final update at the end
WellOrdered(p) ==
    /\ Len(p) >= 3
    /\ p[1] = "open"
    /\ p[2] = "shutting"
    /\ p[Len(p)] \in OkUpdates \cup FailUpdates
    /\ SubSeq(p, 3, Len(p) - 1) \in {<<>>, <<"stuck">>, <<"starting">>,
                                     <<"stuck", "starting">>}

\* C15: the progress calls of a finished invocation whose channel was opened
\* are in order and end with the one final update, which is a success or
\* information message iff the status is ok and a failure message iff it is
\* error.
C15_ProgressOrder ==
    \A i \in Invs :
        (Finished(i) /\ inv[i].progress_msg)
        => /\ WellOrdered(inv[i].prog)
           /\ inv[i].prog[Len(inv[i].prog)] \in OkUpdates <=> inv[i].result.status = "ok"
           /\ inv[i].prog[Len(inv[i].prog)] \in FailUpdates <=> inv[i].result.status = "error"

\* the statements after the start request
PastStart == {"report_success", "report_start_failed", "done"}

\* C17: an invocation issues at most one start request; when the second look
\* finds the target running it issues none, its last progress call is the
\* information message and it returns ok "Switched to"; when the second look
\* finds anything else it issues exactly one, and returns an error when that
\* request fails.
C17_StartAtMostOnce ==
    \A i \in Invs :
        /\ Count(inv[i].cp, "start") <= 1
        /\ inv[i].recheck = "running"
           => /\ ~Has(inv[i].cp, "start")
              /\ inv[i].pc \in {"report_info", "done"}
              /\ Finished(i)
                 => /\ inv[i].result = OkSwitched
                    /\ inv[i].progress_msg => inv[i].prog[Len(inv[i].prog)] = "info"
        /\ (inv[i].recheck = "other" /\ inv[i].pc \in PastStart)
           => Count(inv[i].cp, "start") = 1
        /\ inv[i].startOut = "failed"
           => /\ inv[i].pc \in {"report_start_failed", "done"}
              /\ Finished(i) => inv[i].result.status = "error"

C17_Witness ==
    \E i \in Invs : /\ Finished(i) /\ ~inv[i].preRunning /\ inv[i].recheck = "running"
                    /\ inv[i].progress_msg /\ inv[i].prog[Len(inv[i].prog)] = "info"

\* C18: every invocation that has acquired the guard leaves the body, and the
\* guard is released, after at most Timeout polls and at most one forced stop
\* with its settle delay.
C18_Terminates ==
    /\ \A i \in Invs : InBody(i) ~> ~InBody(i)
    /\ op_lock ~> ~op_lock
    /\ [](\A i \in Invs : inv[i].polls <= Timeout /\ Count(inv[i].cp, "stop") <= 1)

C18_Witness ==
    \E i \in Invs : /\ Finished(i) /\ inv[i].waited = "timeout"
                    /\ inv[i].polls = Timeout /\ inv[i].stopOut = "ok" /\ ~op_lock

\* C19: after set_lock(v) the lock in memory is v whether or not the write
\* succeeded; after a write that succeeded the file holds LOCKED iff the lock
\* in memory is set; after a write that failed an invocation is rejected as
\* locked iff v is true, whatever the file holds.
C19_SetLockInMemory ==
    /\ [](requested # "none"
          => /\ manual_lock <=> requested = "true"
             /\ saved # "none" => (lock_file = File(TextLOCKED) <=> manual_lock))
    /\ [][\A i \in Invs :
            (Enters(i) /\ requested # "none" /\ saved = "none")
            => (inv'[i].result.message = "locked" <=> requested = "true")]_vars

C19_Witness ==
    \E i \in Invs : /\ requested = "true" /\ saved = "none"
                    /\ ~LoadLockState(lock_file, "ok")
                    /\ Finished(i) /\ inv[i].result.message = "locked"

\* none of the first n answers is "stopped"
NoneStopped(obs, n) == \A k \in 1..n : obs[k] # "stopped"

\* C20: the waiter polls at most timeout times; it returns true at the first
\* answer "stopped" and polls no further; it returns false iff none of the
\* answers within the timeout is "stopped"; with timeout 0 it returns false
\* without a poll.
C20_Waiter ==
    waiter.out # "none"
    => /\ waiter.polls <= waiter.timeout
       /\ waiter.out = "true"
          => /\ waiter.polls >= 1
             /\ waiter.obs[waiter.polls] = "stopped"
             /\ NoneStopped(waiter.obs, waiter.polls - 1)
       /\ waiter.out = "false" <=> NoneStopped(waiter.obs, waiter.timeout)
       /\ waiter.out = "false" => waiter.polls = waiter.timeout
       /\ waiter.timeout = 0 => (waiter.out = "false" /\ waiter.polls = 0)

C20_Witness ==
    /\ waiter.out = "true" /\ waiter.polls = 2 /\ waiter.timeout = MaxWait
    /\ waiter.obs[1] = "unknown"

====
